---- MODULE Spec2Model ----
(***************************************************************************)
(* Model of backends/dd.weather.gc.ca.go: the three stage retrieval        *)
(* pipeline fetchLocation -> fetchNearestStation -> fetchSiteData driven   *)
(* by mscConfig.Fetch.                                                     *)
(*                                                                         *)
(* Strings are sequences of one-character strings.  A float64 produced by  *)
(* strconv.ParseFloat is the exact decimal [m |-> mantissa, e |-> number   *)
(* of fractional digits], i.e. m * 10^-e.  An input long enough to leave   *)
(* the float64 range (more than 308 digits) lies outside the bounds.       *)
(***************************************************************************)
EXTENDS Integers, Sequences, FiniteSets, TLC

\* ------------------------------------------------------------------------
\* Bounds
\* ------------------------------------------------------------------------
MaxLocLen == 5
MaxRows == 3

\* ------------------------------------------------------------------------
\* Characters
\* ------------------------------------------------------------------------
Digits == {"0", "1", "4", "7"}

DigitVal(c) == CASE c = "0" -> 0 [] c = "1" -> 1 [] c = "4" -> 4 [] OTHER -> 7

\* characters a location string is drawn from; "x" stands for any character
\* the pattern of fetchLocation has no place for (letter, blank, ...)
LocChars == {"-", ".", ",", "1", "7", "x"}

RECURSIVE SeqsUpTo(_, _)
SeqsUpTo(S, n) ==
    IF n = 0 THEN {<<>>}
    ELSE LET shorter == SeqsUpTo(S, n - 1)
         IN  shorter \cup {Append(s, c) : s \in {t \in shorter : Len(t) = n - 1}, c \in S}

Drop(s, n) == SubSeq(s, n + 1, Len(s))

\* ------------------------------------------------------------------------
\* Exact decimal arithmetic for float64 values
\* ------------------------------------------------------------------------
RECURSIVE Pow10(_)
Pow10(n) == IF n = 0 THEN 1 ELSE 10 * Pow10(n - 1)

Dec(m, e) == [m |-> m, e |-> e]

MaxE(a, b) == IF a.e >= b.e THEN a.e ELSE b.e

\* mantissa of a at the exponent k >= a.e
Scaled(a, k) == a.m * Pow10(k - a.e)

DecSub(a, b) == Dec(Scaled(a, MaxE(a, b)) - Scaled(b, MaxE(a, b)), MaxE(a, b))

DecAdd(a, b) == Dec(Scaled(a, MaxE(a, b)) + Scaled(b, MaxE(a, b)), MaxE(a, b))

DecSquare(a) == Dec(a.m * a.m, 2 * a.e)

DecLess(a, b) == Scaled(a, MaxE(a, b)) < Scaled(b, MaxE(a, b))

\* ------------------------------------------------------------------------
\* strconv.ParseFloat(s, 64), decimal syntax over the modelled characters:
\* optional sign, digits with at most one '.', at least one digit, and the
\* whole string consumed.  Result [ok, val].
\* ------------------------------------------------------------------------
SyntaxError == [ok |-> FALSE, val |-> Dec(0, 0)]

RECURSIVE readFloat(_, _, _, _, _)
readFloat(s, sawdot, sawdigits, m, e) ==
    IF s = <<>> THEN
        IF sawdigits THEN [ok |-> TRUE, val |-> Dec(m, e)] ELSE SyntaxError
    ELSE IF Head(s) = "." THEN
        IF sawdot THEN SyntaxError
        ELSE readFloat(Tail(s), TRUE, sawdigits, m, e)
    ELSE IF Head(s) \in Digits THEN
        readFloat(Tail(s), sawdot, TRUE, 10 * m + DigitVal(Head(s)),
                  IF sawdot THEN e + 1 ELSE e)
    ELSE SyntaxError

ParseFloat(s) ==
    IF s = <<>> THEN SyntaxError
    ELSE IF Head(s) = "-" THEN
        LET r == readFloat(Tail(s), FALSE, FALSE, 0, 0)
        IN  [ok |-> r.ok, val |-> Dec(0 - r.val.m, r.val.e)]
    ELSE readFloat(s, FALSE, FALSE, 0, 0)

\* ------------------------------------------------------------------------
\* regexp.MatchString(`^-?[0-9]*(\.[0-9]+)?,-?[0-9]*(\.[0-9]+)?$`, s)
\* ------------------------------------------------------------------------
\* -?
MatchOptMinus(s) == IF s # <<>> /\ Head(s) = "-" THEN Tail(s) ELSE s

\* [0-9]*
RECURSIVE MatchDigitStar(_)
MatchDigitStar(s) ==
    IF s # <<>> /\ Head(s) \in Digits THEN MatchDigitStar(Tail(s)) ELSE s

\* (\.[0-9]+)?  : what is left after the group; where a '.' is not followed
\* by a digit the group matches nothing
MatchOptFraction(s) ==
    IF Len(s) >= 2 /\ s[1] = "." /\ s[2] \in Digits
    THEN MatchDigitStar(Drop(s, 2))
    ELSE s

\* -?[0-9]*(\.[0-9]+)?  from the start of s; what is left of s
MatchNumber(s) == MatchOptFraction(MatchDigitStar(MatchOptMinus(s)))

MatchString(s) ==
    LET r1 == MatchNumber(s)
    IN  /\ r1 # <<>>
        /\ Head(r1) = ","
        /\ MatchNumber(Tail(r1)) = <<>>

\* strings.Split(s, ",")
RECURSIVE SplitFrom(_, _)
SplitFrom(s, cur) ==
    IF s = <<>> THEN <<cur>>
    ELSE IF Head(s) = "," THEN <<cur>> \o SplitFrom(Tail(s), <<>>)
    ELSE SplitFrom(Tail(s), Append(cur, Head(s)))

Split(s) == SplitFrom(s, <<>>)

\* ------------------------------------------------------------------------
\* fetchLocation
\* ------------------------------------------------------------------------
\* an error is the sequence of the fragments of its message; nil is empty
ErrNil == <<>>
ErrSyntax == "strconv.ParseFloat: invalid syntax"
ErrFormat == <<"expected location to be only latitude,longitude">>
ErrLatitude == <<"latitude error: ", ErrSyntax>>
ErrLongitude == <<"longitude error: ", ErrSyntax>>

MinusOne == Dec(0 - 1, 0)

LocFail(err) == [lat |-> MinusOne, lon |-> MinusOne, err |-> err]

\* fetchLocation reporting a failure of either component as a latitude error
fetchLocationOneError(location) ==
    IF MatchString(location) THEN
        LET s == Split(location)
            lat == ParseFloat(s[1])
            lon == ParseFloat(s[2])
        IN  IF ~lat.ok \/ ~lon.ok THEN LocFail(ErrLatitude)
            ELSE [lat |-> lat.val, lon |-> lon.val, err |-> ErrNil]
    ELSE LocFail(ErrFormat)

fetchLocation(location) ==
    IF MatchString(location) THEN
        LET s == Split(location)
            lat == ParseFloat(s[1])
            lon == ParseFloat(s[2])
        IN  IF ~lat.ok THEN LocFail(ErrLatitude)
            ELSE IF ~lon.ok THEN LocFail(ErrLongitude)
            ELSE [lat |-> lat.val, lon |-> lon.val, err |-> ErrNil]
    ELSE LocFail(ErrFormat)

\* ------------------------------------------------------------------------
\* The station directory (site_list_towns_en.csv) as fetchNearestStation
\* receives it
\* ------------------------------------------------------------------------
\* latitude / longitude column texts: a number and a one-letter unit suffix
CoordTexts == {<<"0", "N">>, <<"1", "N">>, <<"-", "1", "N">>, <<"x", "N">>}

RowLetters == <<"a", "b", "c", "d", "e", "f">>

\* the directory line at position i: station code, town, region, lat, lon
StationCode(i) == <<"s", RowLetters[i]>>

Region(i) == IF i % 2 = 1 THEN <<"O", "N">> ELSE <<"Q", "C">>

Record(i, latText, lonText) ==
    <<StationCode(i), <<"t">>, Region(i), latText, lonText>>

\* a line csv.Read cannot parse
BadLine == [err |-> TRUE, record |-> <<>>]

LinesAt(i) ==
    {BadLine} \cup
    {[err |-> FALSE, record |-> Record(i, la, lo)] : la \in CoordTexts, lo \in CoordTexts}

RECURSIVE DirectoriesOfLen(_)
DirectoriesOfLen(n) ==
    IF n = 0 THEN {<<>>}
    ELSE {Append(d, l) : d \in DirectoriesOfLen(n - 1), l \in LinesAt(n)}

Directories == UNION {DirectoriesOfLen(n) : n \in 0..MaxRows}

\* what http.Get and ioutil.ReadAll deliver for the directory URI
GetFails == [kind |-> "get error", newline |-> FALSE, rows |-> <<>>]
ReadFails == [kind |-> "read error", newline |-> FALSE, rows |-> <<>>]
\* a body without any '\n': there is no complete first line
NoFirstLine == [kind |-> "body", newline |-> FALSE, rows |-> <<>>]
DirectoryBody(rows) == [kind |-> "body", newline |-> TRUE, rows |-> rows]

DirectoryResponses ==
    {GetFails, ReadFails, NoFirstLine} \cup {DirectoryBody(d) : d \in Directories}

\* ------------------------------------------------------------------------
\* fetchNearestStation
\* ------------------------------------------------------------------------
DirectoryURI == <<"https://dd.meteo.gc.ca/citypage_weather/docs/site_list_towns_en.csv">>

EOF == <<"EOF">>

\* csv.Reader.Read at line pos of the rows after the header
csvRead(rows, pos) ==
    IF pos > Len(rows) THEN [record |-> <<>>, err |-> EOF]
    ELSE IF rows[pos].err THEN [record |-> <<>>, err |-> <<"parse error">>]
    ELSE [record |-> rows[pos].record, err |-> ErrNil]

MaxFloat64 == [max |-> TRUE]

\* distance < minDistance
DistanceLess(distance, minDistance) ==
    IF minDistance = MaxFloat64 THEN TRUE ELSE DecLess(distance, minDistance)

\* math.Pow(lat-stationLat, 2) + math.Pow(lon-stationLon, 2)
Distance(lat, lon, stationLat, stationLon) ==
    DecAdd(DecSquare(DecSub(lat, stationLat)), DecSquare(DecSub(lon, stationLon)))

StationReturn(code, province, err) == [code |-> code, province |-> province, err |-> err]

Panic == <<"panic">>

\* record[i][:len(record[i])-1], Go index i
StripSuffix(record, i) == SubSeq(record[i + 1], 1, Len(record[i + 1]) - 1)

\* the for loop: pos is the reader's position, (minDistance, code, province)
\* the station retained so far
RECURSIVE scanLoop(_, _, _, _, _, _, _)
scanLoop(rows, pos, lat, lon, minDistance, code, province) ==
    LET r == csvRead(rows, pos)
    IN  IF r.err # EOF THEN
            \* break
            StationReturn(code, province, ErrNil)
        ELSE IF r.err # ErrNil THEN
            StationReturn(<<>>, <<>>,
                          <<"unable to process the csv at ">> \o DirectoryURI \o <<": ">> \o r.err)
        ELSE IF Len(r.record) < 5 \/ Len(r.record[4]) = 0 \/ Len(r.record[5]) = 0 THEN
            \* index or slice bounds out of range
            StationReturn(<<>>, <<>>, Panic)
        ELSE
            LET stationLat == ParseFloat(StripSuffix(r.record, 3))
                stationLon == ParseFloat(StripSuffix(r.record, 4))
            IN  IF ~stationLat.ok \/ ~stationLon.ok THEN
                    \* log.Print(err); continue
                    scanLoop(rows, pos + 1, lat, lon, minDistance, code, province)
                ELSE
                    LET distance == Distance(lat, lon, stationLat.val, stationLon.val)
                    IN  IF DistanceLess(distance, minDistance)
                        THEN scanLoop(rows, pos + 1, lat, lon, distance,
                                      r.record[1], r.record[3])
                        ELSE scanLoop(rows, pos + 1, lat, lon, minDistance, code, province)

\* fetchNearestStation from ioutil.ReadAll on, resp being what the server
\* delivered
stationAfterGet(lat, lon, resp) ==
    IF resp.kind = "read error" THEN
        StationReturn(<<>>, <<>>,
                      <<"unable to read response body (">> \o DirectoryURI \o <<"): ">>)
    ELSE IF ~resp.newline THEN
        \* ReadSlice('\n') found no delimiter
        StationReturn(<<>>, <<>>, EOF)
    ELSE scanLoop(resp.rows, 1, lat, lon, MaxFloat64, <<>>, <<>>)

fetchNearestStation(lat, lon, resp) ==
    IF resp.kind = "get error" THEN
        StationReturn(<<>>, <<>>, <<"unable to get (">> \o DirectoryURI \o <<") ">>)
    ELSE stationAfterGet(lat, lon, resp)

\* ------------------------------------------------------------------------
\* The bulletin document as fetchSiteData receives it: a sequence of markup
\* tokens
\* ------------------------------------------------------------------------
StartTags == {"<siteData>", "<license>", "<html>"}
EndTags == {"</siteData>", "</license>", "</html>"}

EndTagOf(t) ==
    CASE t = "<siteData>" -> "</siteData>"
      [] t = "<license>" -> "</license>"
      [] OTHER -> "</html>"

NilData == [nil |-> TRUE, XMLName |-> ""]

Unmarshalled(data, err) == [data |-> data, err |-> err]

\* the decoder reading the content of the open elements in stack up to the
\* end of the root element
RECURSIVE readElement(_, _)
readElement(s, stack) ==
    IF stack = <<>> THEN Unmarshalled([nil |-> FALSE, XMLName |-> "siteData"], ErrNil)
    ELSE IF s = <<>> THEN Unmarshalled(NilData, <<"XML syntax error: unexpected EOF">>)
    ELSE IF Head(s) \in StartTags THEN readElement(Tail(s), <<Head(s)>> \o stack)
    ELSE IF Head(s) \in EndTags THEN
        IF Head(s) = EndTagOf(Head(stack)) THEN readElement(Tail(s), Tail(stack))
        ELSE Unmarshalled(NilData, <<"XML syntax error: element closed by ", Head(s)>>)
    ELSE readElement(Tail(s), stack)

\* xml.Unmarshal(body, &data) for data of type siteData
RECURSIVE xmlUnmarshal(_)
xmlUnmarshal(body) ==
    IF body = <<>> THEN Unmarshalled(NilData, EOF)
    ELSE IF Head(body) \in EndTags THEN
        Unmarshalled(NilData, <<"XML syntax error: unexpected end element ", Head(body)>>)
    ELSE IF Head(body) \notin StartTags THEN xmlUnmarshal(Tail(body))
    ELSE IF Head(body) # "<siteData>" THEN
        Unmarshalled(NilData, <<"expected element type <siteData> but have ", Head(body)>>)
    ELSE readElement(Tail(body), <<Head(body)>>)

BulletinBodies ==
    { <<"<siteData>", "<license>", "text", "</license>", "</siteData>">>,
      <<"<siteData>", "</siteData>">>,
      <<"<siteData>", "<license>", "text">>,
      <<"<siteData>", "<license>", "</siteData>">>,
      <<"<html>", "text", "</html>">>,
      <<"text">>,
      <<>> }

BulletinResponses ==
    {[kind |-> "get error", body |-> <<>>], [kind |-> "read error", body |-> <<>>]}
    \cup {[kind |-> "body", body |-> b] : b \in BulletinBodies}

\* ------------------------------------------------------------------------
\* fetchSiteData
\* ------------------------------------------------------------------------
\* %c of rune(b) for the byte b: a byte above 0x7f prints as the Latin-1
\* character of that code point
FormatRune(b) ==
    CASE b = "C3" -> "U+00C3"
      [] b = "A9" -> "U+00A9"
      [] OTHER -> b

SiteURI(stationCode, province, lang) ==
    <<"https://dd.weather.gc.ca/citypage_weather/xml/">> \o stationCode \o <<"/">>
        \o province \o <<"_", FormatRune(lang), ".xml">>

SiteReturn(data, err) == [data |-> data, err |-> err]

\* siteAfterGet with the raw body left out of the unmarshal error
siteAfterGetWithoutBody(URI, resp) ==
    IF resp.kind = "read error" THEN
        SiteReturn(NilData, <<"unable to read response body (">> \o URI \o <<"): ">>)
    ELSE
        LET u == xmlUnmarshal(resp.body)
        IN  IF u.err # ErrNil THEN
                SiteReturn(NilData,
                           <<"unable to unmarshal response (">> \o URI \o <<"): ">> \o u.err)
            ELSE SiteReturn(u.data, ErrNil)

\* fetchSiteData from ioutil.ReadAll on
siteAfterGet(URI, resp) ==
    IF resp.kind = "read error" THEN
        SiteReturn(NilData, <<"unable to read response body (">> \o URI \o <<"): ">>)
    ELSE
        LET u == xmlUnmarshal(resp.body)
        IN  IF u.err # ErrNil THEN
                SiteReturn(NilData,
                           <<"unable to unmarshal response (">> \o URI \o <<"): ">> \o u.err
                               \o <<"\nThe json body is: ">> \o resp.body)
            ELSE SiteReturn(u.data, ErrNil)

fetchSiteData(stationCode, province, lang, resp) ==
    LET URI == SiteURI(stationCode, province, lang)
    IN  IF resp.kind = "get error" THEN
            SiteReturn(NilData, <<"unable to get (">> \o URI \o <<") ">>)
        ELSE siteAfterGet(URI, resp)

\* ------------------------------------------------------------------------
\* mscConfig.Fetch
\* ------------------------------------------------------------------------
\* Fetch going on to the next stage whatever the stage returned
AfterStageIgnoringError(err, next) == next

\* where Fetch goes after a stage returned err: log.Fatal(err) or on to next
AfterStage(err, next) ==
    IF err = Panic THEN "panic"
    ELSE IF err # ErrNil THEN "fatal"
    ELSE next

\* the body closed at the end of the stage instead of by a deferred call: an
\* early return leaves it open
CloseOnSuccess(opened, body, err) == IF err = ErrNil THEN opened \ {body} ELSE opened

\* defer resp.Body.Close(): the bodies still open once the stage has returned
CloseOnReturn(opened, body, err) == opened \ {body}

\* one Fetch call running to its end on its own, given what the two servers
\* deliver
FetchAlone(loc, lang, dirResp, siteResp) ==
    LET l == fetchLocation(loc)
        s == fetchNearestStation(l.lat, l.lon, dirResp)
        d == fetchSiteData(s.code, s.province, lang[1], siteResp)
    IN  IF l.err # ErrNil THEN [pc |-> AfterStage(l.err, "done"), err |-> l.err]
        ELSE IF s.err # ErrNil THEN [pc |-> AfterStage(s.err, "done"), err |-> s.err]
        ELSE IF lang = <<>> THEN [pc |-> "panic", err |-> Panic]
        ELSE [pc |-> AfterStage(d.err, "done"), err |-> d.err]

\* ------------------------------------------------------------------------
\* State
\* ------------------------------------------------------------------------
Procs == {1, 2}

VARIABLES
    location,       \* argument of a fetchLocation call
    locResult,      \* what that call returned
    query,          \* (lat, lon) argument of a fetchNearestStation call
    directory,      \* what the directory server delivers to that call
    stationResult,  \* what that call returned
    \* concurrent Fetch calls of one process, one per p \in Procs
    lang,           \* c.lang
    exited,         \* the process has ended (os.Exit or an unrecovered panic)
    logged,         \* the errors log.Fatal printed
    pc,             \* pc[p]: where Fetch call p stands
    arg,            \* arg[p]: its location argument
    loc,            \* loc[p]: what fetchLocation returned to it
    dirResp,        \* dirResp[p]: what the directory server delivered to it
    station,        \* station[p]: what fetchNearestStation returned to it
    siteResp,       \* siteResp[p]: what the bulletin server delivered to it
    site,           \* site[p]: what fetchSiteData returned to it
    calls,          \* calls[p]: the stages it has called, in order
    requests,       \* requests[p]: the URIs it has requested, in order
    open            \* open[p]: the response bodies it holds open

fetchVars == <<lang, exited, logged, pc, arg, loc, dirResp, station, siteResp, site,
               calls, requests, open>>

vars == <<location, locResult, query, directory, stationResult, fetchVars>>

NotCalled == [err |-> <<"not called">>]
NoResponse == [kind |-> "none"]

LocIdle == location = <<>> /\ locResult = NotCalled
StationIdle == query = <<>> /\ directory = GetFails /\ stationResult = NotCalled

FetchIdle ==
    /\ lang = <<"e">>
    /\ exited = FALSE
    /\ logged = <<>>
    /\ pc = [p \in Procs |-> "idle"]
    /\ arg = [p \in Procs |-> <<>>]
    /\ loc = [p \in Procs |-> NotCalled]
    /\ dirResp = [p \in Procs |-> NoResponse]
    /\ station = [p \in Procs |-> NotCalled]
    /\ siteResp = [p \in Procs |-> NoResponse]
    /\ site = [p \in Procs |-> NotCalled]
    /\ calls = [p \in Procs |-> <<>>]
    /\ requests = [p \in Procs |-> <<>>]
    /\ open = [p \in Procs |-> {}]

\* ------------------------------------------------------------------------
\* fetchLocation on its own
\* ------------------------------------------------------------------------
InitLoc ==
    /\ location \in SeqsUpTo(LocChars, MaxLocLen)
    /\ locResult = NotCalled
    /\ StationIdle
    /\ FetchIdle

CallFetchLocation ==
    /\ locResult = NotCalled
    /\ locResult' = fetchLocation(location)
    /\ UNCHANGED <<location, query, directory, stationResult, fetchVars>>

NextLoc == CallFetchLocation

SpecLoc == InitLoc /\ [][NextLoc]_vars

\* ------------------------------------------------------------------------
\* fetchNearestStation on its own
\* ------------------------------------------------------------------------
QueryCoords == {Dec(0, 0), Dec(4, 1)}

InitStation ==
    /\ query \in QueryCoords \X QueryCoords
    /\ directory \in DirectoryResponses
    /\ stationResult = NotCalled
    /\ LocIdle
    /\ FetchIdle

CallFetchNearestStation ==
    /\ stationResult = NotCalled
    /\ stationResult' = fetchNearestStation(query[1], query[2], directory)
    /\ UNCHANGED <<location, locResult, query, directory, fetchVars>>

NextStation == CallFetchNearestStation

SpecStation == InitStation /\ [][NextStation]_vars

\* ------------------------------------------------------------------------
\* Fetch: two calls running concurrently in one process
\* ------------------------------------------------------------------------
\* "1,7", "-.7,1", ",", "1,-", "x"
Locations ==
    { <<"1", ",", "7">>, <<"-", ".", "7", ",", "1">>, <<",">>, <<"1", ",", "-">>, <<"x">> }

\* c.lang as its bytes: "e", "f", "xy", "" and the two bytes of U+00E9
Langs == { <<"e">>, <<"f">>, <<"x", "y">>, <<>>, <<"C3", "A9">> }

FetchDirectoryResponses ==
    { GetFails, ReadFails, NoFirstLine,
      DirectoryBody(<<>>),
      DirectoryBody(<<[err |-> FALSE, record |-> Record(1, <<"1", "N">>, <<"1", "N">>)]>>),
      DirectoryBody(<<[err |-> FALSE, record |-> Record(1, <<"x", "N">>, <<"1", "N">>)],
                      [err |-> FALSE, record |-> Record(2, <<"0", "N">>, <<"1", "N">>)]>>) }

Init ==
    /\ lang \in Langs
    /\ exited = FALSE
    /\ logged = <<>>
    /\ pc = [p \in Procs |-> "fetchLocation"]
    /\ arg \in [Procs -> Locations]
    /\ loc = [p \in Procs |-> NotCalled]
    /\ dirResp = [p \in Procs |-> NoResponse]
    /\ station = [p \in Procs |-> NotCalled]
    /\ siteResp = [p \in Procs |-> NoResponse]
    /\ site = [p \in Procs |-> NotCalled]
    /\ calls = [p \in Procs |-> <<>>]
    /\ requests = [p \in Procs |-> <<>>]
    /\ open = [p \in Procs |-> {}]
    /\ LocIdle
    /\ StationIdle

inputs == <<location, locResult, query, directory, stationResult, lang, arg>>

\* Fetch call p goes to where, having got err from a stage; log.Fatal and a
\* panic end the process
Leave(p, err, next) ==
    /\ pc' = [pc EXCEPT ![p] = AfterStage(err, next)]
    /\ exited' = (AfterStage(err, next) \in {"fatal", "panic"})
    /\ logged' = IF AfterStage(err, next) = "fatal" THEN Append(logged, err) ELSE logged

\* line 514: fetchLocation(location)
StageLocation(p) ==
    /\ ~exited
    /\ pc[p] = "fetchLocation"
    /\ calls' = [calls EXCEPT ![p] = Append(@, "fetchLocation")]
    /\ loc' = [loc EXCEPT ![p] = fetchLocation(arg[p])]
    /\ Leave(p, loc'[p].err, "stationGet")
    /\ UNCHANGED <<inputs, dirResp, station, siteResp, site, requests, open>>

\* lines 516, 436-440: fetchNearestStation is called and issues http.Get
StationGet(p) ==
    /\ ~exited
    /\ pc[p] = "stationGet"
    /\ calls' = [calls EXCEPT ![p] = Append(@, "fetchNearestStation")]
    /\ requests' = [requests EXCEPT ![p] = Append(@, DirectoryURI)]
    /\ \E resp \in FetchDirectoryResponses :
        /\ dirResp' = [dirResp EXCEPT ![p] = resp]
        /\ IF resp.kind = "get error" THEN
                /\ station' = [station EXCEPT ![p] =
                                  fetchNearestStation(loc[p].lat, loc[p].lon, resp)]
                /\ Leave(p, station'[p].err, "siteGet")
                /\ UNCHANGED open
           ELSE
                /\ open' = [open EXCEPT ![p] = @ \cup {"directory"}]
                /\ pc' = [pc EXCEPT ![p] = "stationRead"]
                /\ UNCHANGED <<station, exited, logged>>
    /\ UNCHANGED <<inputs, loc, siteResp, site>>

\* lines 442-487: the body is read and scanned, the deferred Close runs,
\* fetchNearestStation returns to Fetch
StationRead(p) ==
    /\ ~exited
    /\ pc[p] = "stationRead"
    /\ station' = [station EXCEPT ![p] =
                      stationAfterGet(loc[p].lat, loc[p].lon, dirResp[p])]
    /\ open' = [open EXCEPT ![p] = CloseOnReturn(@, "directory", station'[p].err)]
    /\ Leave(p, station'[p].err, "siteGet")
    /\ UNCHANGED <<inputs, loc, dirResp, siteResp, site, calls, requests>>

\* lines 518, 489-496: rune(c.lang[0]) is evaluated, fetchSiteData is called
\* and issues http.Get
SiteGet(p) ==
    /\ ~exited
    /\ pc[p] = "siteGet"
    /\ IF lang = <<>> THEN
            \* index out of range
            /\ pc' = [pc EXCEPT ![p] = "panic"]
            /\ exited' = TRUE
            /\ UNCHANGED <<logged, calls, requests, siteResp, site, open>>
       ELSE
            /\ calls' = [calls EXCEPT ![p] = Append(@, "fetchSiteData")]
            /\ requests' = [requests EXCEPT ![p] =
                               Append(@, SiteURI(station[p].code, station[p].province, lang[1]))]
            /\ \E resp \in BulletinResponses :
                /\ siteResp' = [siteResp EXCEPT ![p] = resp]
                /\ IF resp.kind = "get error" THEN
                        /\ site' = [site EXCEPT ![p] =
                                       fetchSiteData(station[p].code, station[p].province,
                                                     lang[1], resp)]
                        /\ Leave(p, site'[p].err, "done")
                        /\ UNCHANGED open
                   ELSE
                        /\ open' = [open EXCEPT ![p] = @ \cup {"bulletin"}]
                        /\ pc' = [pc EXCEPT ![p] = "siteRead"]
                        /\ UNCHANGED <<site, exited, logged>>
    /\ UNCHANGED <<inputs, loc, dirResp, station>>

\* lines 498-508, 520-524: the body is read and decoded, the deferred Close
\* runs, fetchSiteData returns to Fetch, which logs the document and returns
SiteRead(p) ==
    /\ ~exited
    /\ pc[p] = "siteRead"
    /\ site' = [site EXCEPT ![p] =
                   siteAfterGet(SiteURI(station[p].code, station[p].province, lang[1]),
                                siteResp[p])]
    /\ open' = [open EXCEPT ![p] = CloseOnReturn(@, "bulletin", site'[p].err)]
    /\ Leave(p, site'[p].err, "done")
    /\ UNCHANGED <<inputs, loc, dirResp, station, siteResp, calls, requests>>

Next ==
    \E p \in Procs :
        \/ StageLocation(p)
        \/ StationGet(p)
        \/ StationRead(p)
        \/ SiteGet(p)
        \/ SiteRead(p)

Spec == Init /\ [][Next]_vars

\* ------------------------------------------------------------------------
\* Properties of fetchNearestStation (SpecStation)
\* ------------------------------------------------------------------------
StationCalled == stationResult # NotCalled

\* the call received a directory with its header line and lines csv can read
DirectoryRead ==
    /\ directory.kind = "body"
    /\ directory.newline
    /\ \A i \in DOMAIN directory.rows : ~directory.rows[i].err

LatOf(i) == ParseFloat(StripSuffix(directory.rows[i].record, 3))
LonOf(i) == ParseFloat(StripSuffix(directory.rows[i].record, 4))

\* the records after the header whose latitude and longitude parse
WellFormed == {i \in DOMAIN directory.rows : LatOf(i).ok /\ LonOf(i).ok}

DistanceTo(i) == Distance(query[1], query[2], LatOf(i).val, LonOf(i).val)

Nearest == {i \in WellFormed : \A j \in WellFormed : ~DecLess(DistanceTo(j), DistanceTo(i))}

Earliest(S) == CHOOSE i \in S : \A j \in S : i <= j

ReturnsRecord(i) ==
    /\ stationResult.err = ErrNil
    /\ stationResult.code = directory.rows[i].record[1]
    /\ stationResult.province = directory.rows[i].record[3]

\* C1: with at least one record whose latitude and longitude parse,
\* fetchNearestStation returns, without error, code and region of a record
\* at minimum squared distance among the records that parse.
C1_ReturnsNearestStation ==
    (StationCalled /\ DirectoryRead /\ WellFormed # {})
        => \E i \in Nearest : ReturnsRecord(i)

\* C2: with no record after the header, or none whose latitude and longitude
\* parse, fetchNearestStation returns an error; it never returns a nil error
\* with an empty station code and region.
C2_NoStationIsAnError ==
    /\ (StationCalled /\ DirectoryRead /\ WellFormed = {}) => stationResult.err # ErrNil
    /\ StationCalled =>
          ~(stationResult.err = ErrNil /\ stationResult.code = <<>>
              /\ stationResult.province = <<>>)

\* C3: when several records that parse are at the same minimum distance,
\* fetchNearestStation returns the earliest of them.
C3_TieKeepsEarliest ==
    (StationCalled /\ DirectoryRead /\ Cardinality(Nearest) >= 2)
        => ReturnsRecord(Earliest(Nearest))

\* ------------------------------------------------------------------------
\* Properties of fetchLocation (SpecLoc)
\* ------------------------------------------------------------------------
LocationCalled == locResult # NotCalled

AllDigits(s) == \A i \in DOMAIN s : s[i] \in Digits

\* optional minus, one or more digits, optionally '.' and one or more digits
SignedDecimal(s) ==
    LET u == IF s # <<>> /\ Head(s) = "-" THEN Tail(s) ELSE s
    IN  \/ (u # <<>> /\ AllDigits(u))
        \/ \E k \in 2..(Len(u) - 1) :
              /\ u[k] = "."
              /\ AllDigits(SubSeq(u, 1, k - 1))
              /\ AllDigits(SubSeq(u, k + 1, Len(u)))

\* two signed decimals around a single comma
SignedDecimalPair(s) ==
    \E k \in DOMAIN s :
        /\ s[k] = ","
        /\ SignedDecimal(SubSeq(s, 1, k - 1))
        /\ SignedDecimal(SubSeq(s, k + 1, Len(s)))

\* C4: a location that is not two signed decimals (each with at least one
\* digit) around a single comma gets the invalid-format error.
C4_FormatErrorUnlessDecimalPair ==
    (LocationCalled /\ ~SignedDecimalPair(location)) => locResult.err = ErrFormat

CommaAt(s) == CHOOSE k \in DOMAIN s : s[k] = ","
BeforeComma(s) == SubSeq(s, 1, CommaAt(s) - 1)
AfterComma(s) == SubSeq(s, CommaAt(s) + 1, Len(s))

\* the number a decimal numeral denotes
RECURSIVE NatOf(_)
NatOf(d) ==
    IF d = <<>> THEN 0
    ELSE 10 * NatOf(SubSeq(d, 1, Len(d) - 1)) + DigitVal(d[Len(d)])

DecimalValue(s) ==
    LET n == NatOf(SelectSeq(s, LAMBDA c : c \in Digits))
        dots == {k \in DOMAIN s : s[k] = "."}
    IN  Dec(IF Head(s) = "-" THEN 0 - n ELSE n,
            IF dots = {} THEN 0 ELSE Len(s) - (CHOOSE k \in dots : TRUE))

\* C7: on a location that matches the pattern, fetchLocation returns the
\* latitude error exactly when the first component does not parse, the
\* longitude error exactly when the first parses and the second does not,
\* and otherwise the two numbers the components denote, unchanged.
C7_ErrorNamesTheComponent ==
    (LocationCalled /\ MatchString(location)) =>
        LET a == BeforeComma(location)
            b == AfterComma(location)
        IN  /\ (locResult.err = ErrLatitude) <=> ~ParseFloat(a).ok
            /\ (locResult.err = ErrLongitude) <=> (ParseFloat(a).ok /\ ~ParseFloat(b).ok)
            /\ (ParseFloat(a).ok /\ ParseFloat(b).ok) =>
                  locResult = [lat |-> DecimalValue(a), lon |-> DecimalValue(b),
                               err |-> ErrNil]

\* the first component parses, the second does not
C7_Witness ==
    /\ LocationCalled
    /\ MatchString(location)
    /\ ParseFloat(BeforeComma(location)).ok
    /\ ~ParseFloat(AfterComma(location)).ok
    /\ locResult.err = ErrLongitude

\* ------------------------------------------------------------------------
\* Properties of Fetch (Spec)
\* ------------------------------------------------------------------------
Stages == <<"fetchLocation", "fetchNearestStation", "fetchSiteData">>

IsPrefix(s, t) == Len(s) <= Len(t) /\ s = SubSeq(t, 1, Len(s))

Failed(r) == r # NotCalled /\ r.err # ErrNil
Succeeded(r) == r # NotCalled /\ r.err = ErrNil

\* C5: the stages run in the order fetchLocation, fetchNearestStation,
\* fetchSiteData, each at most once and each only after the one before it
\* succeeded; once a stage has failed no further stage is called, no further
\* request is made, and the error reported is that stage's error.
C5_StagesInOrderFirstErrorWins ==
    \A p \in Procs :
        /\ IsPrefix(calls[p], Stages)
        /\ Len(calls[p]) >= 2 => Succeeded(loc[p])
        /\ Len(calls[p]) >= 3 => Succeeded(station[p])
        /\ Len(requests[p]) <= Len(calls[p])
        /\ Failed(loc[p]) =>
              /\ calls[p] = SubSeq(Stages, 1, 1)
              /\ requests[p] = <<>>
              /\ pc[p] = "fatal"
              /\ logged = <<loc[p].err>>
        /\ Failed(station[p]) =>
              /\ calls[p] = SubSeq(Stages, 1, 2)
              /\ requests[p] = <<DirectoryURI>>
              /\ pc[p] = "fatal"
              /\ logged = <<station[p].err>>
        /\ Failed(site[p]) =>
              /\ calls[p] = Stages
              /\ Len(requests[p]) = 2
              /\ pc[p] = "fatal"
              /\ logged = <<site[p].err>>

\* a call whose second stage failed after its first succeeded
C5_Witness ==
    \E p \in Procs :
        /\ Succeeded(loc[p])
        /\ Failed(station[p])
        /\ pc[p] = "fatal"
        /\ calls[p] = SubSeq(Stages, 1, 2)

Ended(p) == pc[p] \in {"done", "fatal", "panic"}

\* C6: each of two concurrent Fetch calls on different locations ends as it would have ended running
\* inputs, and the failure of one does not keep the other from ending.
C6_ConcurrentCallsIndependent ==
    (\A p, q \in Procs : p # q => arg[p] # arg[q]) =>
        \A p \in Procs :
            /\ exited => Ended(p)
            /\ Ended(p) => pc[p] = FetchAlone(arg[p], lang, dirResp[p], siteResp[p]).pc

\* the first character of the language string, as a character
FirstCharacter(l) == IF Len(l) >= 2 /\ l[1] = "C3" /\ l[2] = "A9" THEN "U+00E9" ELSE l[1]

\* C8: whatever the language string, once fetchLocation and
\* fetchNearestStation have succeeded Fetch requests the bulletin at the
\* locator made of the resolved station code, the resolved region and the
\* first character of the language string.
C8_BulletinRequestedForAnyLanguage ==
    \A p \in Procs :
        (Succeeded(station[p]) /\ pc[p] # "siteGet") =>
            /\ Len(requests[p]) = 2
            /\ requests[p][2] =
                  <<"https://dd.weather.gc.ca/citypage_weather/xml/">> \o station[p].code
                      \o <<"/">> \o station[p].province
                      \o <<"_", FirstCharacter(lang), ".xml">>

Contains(s, t) == \E i \in 1..(Len(s) - Len(t) + 1) : SubSeq(s, i, i + Len(t) - 1) = t

Undecodable(body) == xmlUnmarshal(body).err # ErrNil

\* C9: when the body fetchSiteData has read cannot be decoded, it returns no
\* document and an unmarshal error whose message contains the whole body; it
\* returns a document only when the body was decoded.
C9_DecodeErrorCarriesBody ==
    \A p \in Procs :
        site[p] # NotCalled =>
            /\ (siteResp[p].kind = "body" /\ Undecodable(siteResp[p].body)) =>
                  /\ site[p].data = NilData
                  /\ Head(site[p].err) = "unable to unmarshal response ("
                  /\ Contains(Tail(site[p].err), siteResp[p].body)
            /\ site[p].data # NilData =>
                  /\ siteResp[p].kind = "body"
                  /\ ~Undecodable(siteResp[p].body)
                  /\ site[p].err = ErrNil

\* a truncated document was received and refused
C9_Witness ==
    \E p \in Procs :
        /\ site[p] # NotCalled
        /\ siteResp[p].kind = "body"
        /\ Len(siteResp[p].body) >= 2
        /\ Undecodable(siteResp[p].body)
        /\ pc[p] = "fatal"

\* C10: a response body is open only while the stage that opened it is
\* running: none is open when the next stage starts or when Fetch has ended,
\* whichever way the stage returned.
C10_BodiesClosedOnReturn ==
    \A p \in Procs :
        /\ pc[p] # "stationRead" => "directory" \notin open[p]
        /\ pc[p] # "siteRead" => "bulletin" \notin open[p]

\* fetchSiteData opened a body and returned an error
C10_Witness ==
    \E p \in Procs :
        /\ Failed(site[p])
        /\ siteResp[p].kind \in {"body", "read error"}
        /\ pc[p] = "fatal"
        /\ open[p] = {}

====
